---- MODULE Spec2Model ----
(***************************************************************************)
(* Model of the sparse-autoencoder training loop of whisper-interp         *)
(* (src/scripts/train_sae.py): train(), validate(), save_checkpoint() and  *)
(* load_checkpoint(), together with the batch iterator they consume; of    *)
(* the two activation sources (src/dataset/activations.py); and of the     *)
(* /top_files handler of the GUI server (src/scripts/gui_server.py) with   *)
(* the feature lookup it calls.                                            *)
(***************************************************************************)
EXTENDS Integers, Naturals, Sequences, FiniteSets, TLC

VARIABLES
    cfg,                      \* the arguments of train() and the data they name
    state,                    \* the TrainState dictionary `state`
    training,                 \* model.training (train / eval mode)
    it_pos,                   \* batches already yielded by train_loader
    epoch,                    \* `epoch`
    inner,                    \* position of `for _ in range(total_steps_per_epoch)`
    micro,                    \* position of `for _ in range(grad_acc_steps)`
    accum,                    \* backward passes accumulated since zero_grad()
    rebuilt,                  \* the last fetch rebuilt the iterator
    val_i,                    \* `i` of validate()'s loop
    val_loss_recon,           \* reconstruction loss returned by validate()
    nSubbed,                  \* len(subbed_transcripts) of the last validate()
    nBase,                    \* len(base_transcripts) of the last validate()
    logged_base_transcripts,  \* `logged_base_transcripts`
    nValidate,                \* validate() calls made by this train()
    stepCkpt,                 \* checkpoints/step<N>.pth, by N
    bestCkpt,                 \* checkpoints/bestval.pth
    bestModel,                \* the bare model saved under the .bestval marker
    pc,                       \* position of the control flow
    store,                    \* a MemoryMappedActivationsDataset and its last read
    fly,                      \* a FlyActivationDataloader and its iteration
    lookup,                   \* a top_activations query in progress
    gui                       \* the /top_files handler of gui_server

trainVars == <<cfg, state, training, it_pos, epoch, inner, micro, accum, rebuilt,
               val_i, val_loss_recon, nSubbed, nBase, logged_base_transcripts,
               nValidate, stepCkpt, bestCkpt, bestModel, pc>>

libVars == <<store, fly, lookup, gui>>

vars == <<trainVars, libVars>>

\* An object that does not exist in the program modelled
Absent == [pc |-> "absent"]

----------------------------------------------------------------------------
(* Bounds of the model *)

MaxDset == 3         \* largest number of training examples
MaxLoss == 1         \* validation losses are 0..MaxLoss
MaxStep == 3         \* optimisation is explored up to this step
MaxEpoch == 3        \* epochs are explored up to this number

(* The inputs explored *)

StepBudgets == {0 - 1, 1, 2}     \* `steps`; -1 is "never stop"
GradAccs == {1, 2}               \* `grad_acc_steps`
BatchSizes == {1, 2}             \* `batch_size`
Cadences == {1, 2}               \* `save_every`, `val_every`
DictSizes == {1, 2}              \* `n_dict_components` of this and of earlier runs
LearningRates == {1, 2}          \* `lr` of this and of earlier runs
PriorSteps == {0, 1}             \* step recorded in a supplied checkpoint

N_TRANSCRIPTS == 4

NaN == 0 - 1                 \* the loss of a diverged model
Inf == MaxLoss + 1           \* float("inf")
Losses == 0..MaxLoss

\* Fault: NaN compares as the smallest value
LtNaNSmallest(a, b) == a < b

\* Python's float comparison: any comparison with NaN is False.
Lt(a, b) == a # NaN /\ b # NaN /\ a < b

----------------------------------------------------------------------------
(* The arguments of train() *)

steps == cfg.steps
grad_acc_steps == cfg.grad_acc_steps
batch_size == cfg.batch_size
save_every == cfg.save_every
val_every == cfg.val_every
dset_len == cfg.dset_len
val_len == cfg.val_len
checkpoint == cfg.checkpoint

hparam_dict ==
    [lr |-> cfg.lr, steps |-> cfg.steps, grad_acc_steps |-> cfg.grad_acc_steps,
     batch_size |-> cfg.batch_size, n_dict_components |-> cfg.n_dict_components]

\* len() of a loader built with drop_last=True
LoaderLen(n, b) == n \div b

total_steps_per_epoch == dset_len \div (batch_size * grad_acc_steps)

----------------------------------------------------------------------------
(* TrainState and checkpoints *)

KeyOrder == <<"model", "optimizer", "scheduler", "step", "best_val_loss", "hparams">>
Keys == {KeyOrder[i] : i \in 1..Len(KeyOrder)}

\* An entry of `state`: comp is hasattr(v, "state_dict"); v is the value, or for
\* a component the content its state_dict() returns.
Comp(sd) == [comp |-> TRUE, v |-> sd]
Plain(x) == [comp |-> FALSE, v |-> x]

ModelSD(n, w) == [shape |-> n, w |-> w]
OptSD(g, t) == [param_groups |-> g, t |-> t]
SchedSD(e, tmax) == [last_epoch |-> e, T_max |-> tmax]

\* `state` as built by train() before any checkpoint is loaded
FreshState(hp) ==
    [k \in Keys |->
        CASE k = "model" -> Comp(ModelSD(hp.n_dict_components, 0))
          [] k = "optimizer" -> Comp(OptSD(1, 0))
          [] k = "scheduler" -> Comp(SchedSD(0, hp.steps))
          [] k = "step" -> Plain(0)
          [] k = "best_val_loss" -> Plain(Inf)
          [] k = "hparams" -> Plain(hp)]

\* save_checkpoint: the bundle handed to torch.save
save_checkpoint(st) == [k \in DOMAIN st |-> st[k].v]

\* component.load_state_dict(sd): does the component take the sub-state?
Accepts(k, cur, sd) ==
    CASE k = "model" -> sd.shape = cur.shape
      [] k = "optimizer" -> sd.param_groups = cur.param_groups
      [] OTHER -> TRUE

RECURSIVE LoadFrom(_, _, _)
LoadFrom(st, file, i) ==
    IF i > Len(KeyOrder) THEN [state |-> st, ok |-> TRUE]
    ELSE LET k == KeyOrder[i] IN
         IF k \notin DOMAIN file THEN [state |-> st, ok |-> FALSE]
         ELSE IF st[k].comp /\ ~Accepts(k, st[k].v, file[k])
              THEN [state |-> st, ok |-> FALSE]
              ELSE LoadFrom([st EXCEPT ![k].v = file[k]], file, i + 1)

\* Fault: plain values are read from the bundle but never stored into `state`
RECURSIVE LoadComponentsOnly(_, _, _)
LoadComponentsOnly(st, file, i) ==
    IF i > Len(KeyOrder) THEN [state |-> st, ok |-> TRUE]
    ELSE LET k == KeyOrder[i] IN
         IF k \notin DOMAIN file THEN [state |-> st, ok |-> FALSE]
         ELSE IF st[k].comp /\ ~Accepts(k, st[k].v, file[k])
              THEN [state |-> st, ok |-> FALSE]
              ELSE LoadComponentsOnly(
                       IF st[k].comp THEN [st EXCEPT ![k].v = file[k]] ELSE st, file, i + 1)

load_checkpoint_components(st, file) == LoadComponentsOnly(st, file, 1)

\* load_checkpoint: the state it leaves behind and whether it returned normally
load_checkpoint(st, file) == LoadFrom(st, file, 1)

NoFile == [k \in {} |-> 0]

\* A checkpoint file that was not written by this run: the bundle a run with
\* hyperparameters hp saved after p steps, possibly lacking one key
PriorState(hp, p, b, g) ==
    [k \in Keys |->
        CASE k = "model" -> Comp(ModelSD(hp.n_dict_components, p))
          [] k = "optimizer" -> Comp(OptSD(g, p))
          [] k = "scheduler" -> Comp(SchedSD(p, hp.steps))
          [] k = "step" -> Plain(p)
          [] k = "best_val_loss" -> Plain(b)
          [] k = "hparams" -> Plain(hp)]

DropKey(f, d) == [k \in (DOMAIN f) \ {d} |-> f[k]]

Defects == Keys \cup {"groups"}

\* Well-formed bundles of earlier runs, whose hyperparameters may differ
SoundFiles(hp) ==
    {save_checkpoint(PriorState([hp EXCEPT !.lr = l, !.n_dict_components = n], p, b, 1)) :
        l \in LearningRates, n \in DictSizes, p \in PriorSteps, b \in {1, Inf}}

\* Bundles that lack a key, or whose optimizer has another parameter grouping
DefectFiles(hp) ==
    {DropKey(save_checkpoint(PriorState(hp, 1, 1, IF d = "groups" THEN 2 ELSE 1)), d) :
        d \in Defects}

PriorFiles(hp) == SoundFiles(hp) \cup DefectFiles(hp)

----------------------------------------------------------------------------
(* Initial states: train() has built its loader, model, optimizer, scheduler *)
(* and `state` (lines 225-279). Building a loader reads the first example of *)
(* its folder, so the train and validation folders hold at least one; `lr`   *)
(* and `n_dict_components` of this run are 1, earlier runs may have used     *)
(* other values.                                                             *)

BaseConfigs ==
    {[steps |-> s, grad_acc_steps |-> g, batch_size |-> b, save_every |-> se,
      val_every |-> ve, dset_len |-> d, val_len |-> vl, lr |-> 1,
      n_dict_components |-> 1, checkpoint |-> FALSE, file |-> NoFile] :
        s \in StepBudgets, g \in GradAccs, b \in BatchSizes,
        se \in Cadences, ve \in Cadences, d \in 1..MaxDset,
        vl \in {1, N_TRANSCRIPTS + 1}}

HParamsOf(c) ==
    [lr |-> c.lr, steps |-> c.steps, grad_acc_steps |-> c.grad_acc_steps,
     batch_size |-> c.batch_size, n_dict_components |-> c.n_dict_components]

Init ==
    /\ \E c \in BaseConfigs :
          \/ cfg = c
          \/ \E f \in PriorFiles(HParamsOf(c)) :
                cfg = [c EXCEPT !.checkpoint = TRUE, !.file = f]
    /\ state = FreshState(hparam_dict)
    /\ training = TRUE
    /\ it_pos = 0
    /\ epoch = 0
    /\ inner = 0
    /\ micro = 0
    /\ accum = 0
    /\ rebuilt = FALSE
    /\ val_i = 0
    /\ val_loss_recon = NaN
    /\ nSubbed = 0
    /\ nBase = 0
    /\ logged_base_transcripts = FALSE
    /\ nValidate = 0
    /\ stepCkpt = [n \in 0..MaxStep |-> NoFile]
    /\ bestCkpt = NoFile
    /\ bestModel = NoFile
    /\ pc = "resume"
    /\ store = Absent
    /\ fly = Absent
    /\ lookup = Absent
    /\ gui = Absent

loopVars == <<it_pos, epoch, inner, micro, accum, rebuilt>>
valVars == <<val_i, val_loss_recon, nSubbed, nBase, logged_base_transcripts,
            nValidate>>
fileVars == <<stepCkpt, bestCkpt, bestModel>>

----------------------------------------------------------------------------
(* train(): resuming *)

Resume ==
    /\ pc = "resume"
    /\ IF checkpoint
       THEN LET r == load_checkpoint(state, cfg.file) IN
            /\ state' = r.state
            /\ pc' = IF r.ok THEN "epoch" ELSE "failed"
       ELSE /\ state' = state
            /\ pc' = "epoch"
    /\ UNCHANGED <<cfg, training, loopVars, valVars, fileVars>>
    /\ UNCHANGED libVars

(* train(): the loops *)

EpochStart ==
    /\ pc = "epoch"
    /\ epoch < MaxEpoch
    /\ epoch' = epoch + 1
    /\ inner' = 0
    /\ pc' = "for"
    /\ UNCHANGED <<cfg, state, training, it_pos, micro, accum, rebuilt, valVars, fileVars>>
    /\ UNCHANGED libVars

ForStep ==
    /\ pc = "for"
    /\ IF inner < total_steps_per_epoch
       THEN /\ micro' = 0
            /\ pc' = "fetch"
       ELSE /\ micro' = micro
            /\ pc' = "epoch_end"
    /\ UNCHANGED <<cfg, state, training, it_pos, epoch, inner, accum, rebuilt, valVars, fileVars>>
    /\ UNCHANGED libVars

\* Fault: on StopIteration the iterator is rebuilt and the micro-batch skipped
FetchSkipsBatch ==
    /\ pc = "fetch"
    /\ IF it_pos < LoaderLen(dset_len, batch_size)
       THEN /\ it_pos' = it_pos + 1
            /\ rebuilt' = FALSE
            /\ micro' = micro
            /\ pc' = "forward"
       ELSE /\ rebuilt' = TRUE
            /\ it_pos' = 0
            /\ micro' = micro + 1
            /\ pc' = IF micro + 1 < grad_acc_steps THEN "fetch" ELSE "optimize"
    /\ UNCHANGED <<cfg, state, training, epoch, inner, accum, valVars, fileVars>>
    /\ UNCHANGED libVars

\* next(train_loader), and on StopIteration a new iterator and one more next()
Fetch ==
    /\ pc = "fetch"
    /\ IF it_pos < LoaderLen(dset_len, batch_size)
       THEN /\ it_pos' = it_pos + 1
            /\ rebuilt' = FALSE
            /\ pc' = "forward"
       ELSE /\ rebuilt' = TRUE
            /\ IF 0 < LoaderLen(dset_len, batch_size)
               THEN /\ it_pos' = 1
                    /\ pc' = "forward"
               ELSE /\ it_pos' = 0
                    /\ pc' = "failed"
    /\ UNCHANGED <<cfg, state, training, epoch, inner, micro, accum, valVars, fileVars>>
    /\ UNCHANGED libVars

ForwardBackward ==
    /\ pc = "forward"
    /\ accum' = accum + 1
    /\ micro' = micro + 1
    /\ pc' = IF micro + 1 < grad_acc_steps THEN "fetch" ELSE "optimize"
    /\ UNCHANGED <<cfg, state, training, it_pos, epoch, inner, rebuilt, valVars, fileVars>>
    /\ UNCHANGED libVars

OptimizeStep ==
    /\ pc = "optimize"
    /\ state["step"].v < MaxStep
    /\ state' = [state EXCEPT !["model"].v.w = @ + 1,
                              !["optimizer"].v.t = @ + 1,
                              !["scheduler"].v.last_epoch = @ + 1,
                              !["step"].v = @ + 1]
    /\ accum' = 0
    /\ pc' = "save"
    /\ UNCHANGED <<cfg, training, it_pos, epoch, inner, micro, rebuilt, valVars, fileVars>>
    /\ UNCHANGED libVars

\* Fault: the cadence is tested on the step about to be taken
SaveDueEarly(s) == (s + 1) % save_every = 0

SaveDue(s) == s % save_every = 0

PeriodicSave ==
    /\ pc = "save"
    /\ stepCkpt' = IF SaveDue(state["step"].v)
                   THEN [stepCkpt EXCEPT ![state["step"].v] = save_checkpoint(state)]
                   ELSE stepCkpt
    /\ pc' = "val_check"
    /\ UNCHANGED <<cfg, state, training, loopVars, valVars, bestCkpt, bestModel>>
    /\ UNCHANGED libVars

\* Fault: the cadence is tested on the step about to be taken
ValDueEarly(s) == (s + 1) % val_every = 0

ValDue(s) == s % val_every = 0

ValCheck ==
    /\ pc = "val_check"
    /\ pc' = IF ValDue(state["step"].v) THEN "validate" ELSE "break_check"
    /\ UNCHANGED <<cfg, state, training, loopVars, valVars, fileVars>>
    /\ UNCHANGED libVars

(* validate() *)

ValidateEnter ==
    /\ pc = "validate"
    /\ training' = FALSE
    /\ val_i' = 0
    /\ nSubbed' = 0
    /\ nBase' = 0
    /\ nValidate' = nValidate + 1
    /\ pc' = "val_loop"
    /\ UNCHANGED <<cfg, state, loopVars, val_loss_recon, logged_base_transcripts, fileVars>>
    /\ UNCHANGED libVars

ValidateExample ==
    /\ pc = "val_loop"
    /\ val_i < val_len
    /\ IF val_i < N_TRANSCRIPTS
       THEN /\ nSubbed' = nSubbed + 1
            /\ nBase' = IF ~logged_base_transcripts THEN nBase + 1 ELSE nBase
       ELSE UNCHANGED <<nSubbed, nBase>>
    /\ val_i' = val_i + 1
    /\ UNCHANGED <<cfg, state, training, loopVars, val_loss_recon,
                   logged_base_transcripts, nValidate, fileVars, pc>>
    /\ UNCHANGED libVars

\* whisper_sub.forward raises: the exception leaves validate() and train()
ValidateSubstitutionFails ==
    /\ pc = "val_loop"
    /\ val_i < val_len
    /\ val_i < N_TRANSCRIPTS
    /\ pc' = "failed"
    /\ UNCHANGED <<cfg, state, training, loopVars, valVars, fileVars>>
    /\ UNCHANGED libVars

ValidateReturn ==
    /\ pc = "val_loop"
    /\ val_i >= val_len
    /\ training' = TRUE
    /\ val_loss_recon' \in Losses \cup {NaN}
    /\ pc' = "val_done"
    /\ UNCHANGED <<cfg, state, loopVars, val_i, nSubbed, nBase,
                   logged_base_transcripts, nValidate, fileVars>>
    /\ UNCHANGED libVars

\* Fault: a loss equal to the best counts as an improvement
IsNewBestOrEqual(loss, best) == Lt(loss, best) \/ loss = best

IsNewBest(loss, best) == Lt(loss, best)

\* Fault: the one-shot flag is never set
AfterValidateKeepsLogging ==
    /\ pc = "val_done"
    /\ IF IsNewBest(val_loss_recon, state["best_val_loss"].v)
       THEN /\ state' = [state EXCEPT !["best_val_loss"].v = val_loss_recon]
            /\ bestCkpt' = save_checkpoint(state')
            /\ bestModel' = state'["model"].v
       ELSE UNCHANGED <<state, bestCkpt, bestModel>>
    /\ pc' = "break_check"
    /\ UNCHANGED <<cfg, training, loopVars, valVars, stepCkpt>>
    /\ UNCHANGED libVars

AfterValidate ==
    /\ pc = "val_done"
    /\ logged_base_transcripts' = TRUE
    /\ IF IsNewBest(val_loss_recon, state["best_val_loss"].v)
       THEN /\ state' = [state EXCEPT !["best_val_loss"].v = val_loss_recon]
            /\ bestCkpt' = save_checkpoint(state')
            /\ bestModel' = state'["model"].v
       ELSE UNCHANGED <<state, bestCkpt, bestModel>>
    /\ pc' = "break_check"
    /\ UNCHANGED <<cfg, training, loopVars, val_i, val_loss_recon, nSubbed, nBase,
                   nValidate, stepCkpt>>
    /\ UNCHANGED libVars

BudgetReached == steps # 0 - 1 /\ state["step"].v >= steps

\* Fault: reaching the budget leaves the epoch without its closing checkpoint
BreakSkipsEpochSave ==
    /\ pc = "break_check"
    /\ IF BudgetReached
       THEN /\ inner' = inner
            /\ pc' = "epoch"
       ELSE /\ inner' = inner + 1
            /\ pc' = "for"
    /\ UNCHANGED <<cfg, state, training, it_pos, epoch, micro, accum, rebuilt, valVars, fileVars>>
    /\ UNCHANGED libVars

BreakCheck ==
    /\ pc = "break_check"
    /\ IF BudgetReached
       THEN /\ inner' = inner
            /\ pc' = "epoch_end"
       ELSE /\ inner' = inner + 1
            /\ pc' = "for"
    /\ UNCHANGED <<cfg, state, training, it_pos, epoch, micro, accum, rebuilt, valVars, fileVars>>
    /\ UNCHANGED libVars

EpochEnd ==
    /\ pc = "epoch_end"
    /\ stepCkpt' = [stepCkpt EXCEPT ![state["step"].v] = save_checkpoint(state)]
    /\ pc' = "epoch"
    /\ UNCHANGED <<cfg, state, training, loopVars, valVars, bestCkpt, bestModel>>
    /\ UNCHANGED libVars

Next ==
    \/ Resume
    \/ EpochStart
    \/ ForStep
    \/ Fetch
    \/ ForwardBackward
    \/ OptimizeStep
    \/ PeriodicSave
    \/ ValCheck
    \/ ValidateEnter
    \/ ValidateExample
    \/ ValidateSubstitutionFails
    \/ ValidateReturn
    \/ AfterValidate
    \/ BreakCheck
    \/ EpochEnd

Spec == Init /\ [][Next]_vars

----------------------------------------------------------------------------
(* A second run: train() is started again on a checkpoint that an earlier    *)
(* run wrote at the end of an epoch                                          *)

\* TrainStates the loop can hold: after p optimisation steps, with any best
\* validation loss, under hyperparameters that a resume may have replaced
HeldStates(c) ==
    {PriorState([HParamsOf(c) EXCEPT !.lr = l], p, b, 1) :
        l \in LearningRates, p \in 0..MaxStep, b \in Losses \cup {Inf}}

InitRoundTrip ==
    /\ cfg \in {c \in BaseConfigs : c.dset_len = MaxDset /\ c.val_len = 1}
    /\ state \in HeldStates(cfg)
    /\ training = TRUE
    /\ it_pos = 0
    /\ epoch = 1
    /\ inner = 0
    /\ micro = 0
    /\ accum = 0
    /\ rebuilt = FALSE
    /\ val_i = 0
    /\ val_loss_recon = NaN
    /\ nSubbed = 0
    /\ nBase = 0
    /\ logged_base_transcripts = FALSE
    /\ nValidate = 0
    /\ stepCkpt = [n \in 0..MaxStep |-> NoFile]
    /\ bestCkpt = NoFile
    /\ bestModel = NoFile
    /\ pc = "epoch_end"
    /\ store = Absent
    /\ fly = Absent
    /\ lookup = Absent
    /\ gui = Absent

\* train() is called again with `checkpoint` naming the file of the current step
Restart ==
    /\ pc = "epoch"
    /\ ~checkpoint
    /\ stepCkpt[state["step"].v] # NoFile
    /\ cfg' = [cfg EXCEPT !.checkpoint = TRUE, !.file = stepCkpt[state["step"].v]]
    /\ state' = FreshState(hparam_dict)
    /\ training' = TRUE
    /\ it_pos' = 0
    /\ epoch' = 0
    /\ inner' = 0
    /\ micro' = 0
    /\ accum' = 0
    /\ rebuilt' = FALSE
    /\ logged_base_transcripts' = FALSE
    /\ nValidate' = 0
    /\ pc' = "resume"
    /\ UNCHANGED <<val_i, val_loss_recon, nSubbed, nBase, fileVars>>
    /\ UNCHANGED libVars

NextRoundTrip ==
    \/ EpochEnd
    \/ Restart
    \/ Resume

RoundTripSpec == InitRoundTrip /\ [][NextRoundTrip]_vars

----------------------------------------------------------------------------
(* The specifications below model the data sources on their own: no train()  *)
(* is running.                                                               *)

TrainAbsent ==
    /\ cfg = Absent
    /\ state = Absent
    /\ training = TRUE
    /\ it_pos = 0
    /\ epoch = 0
    /\ inner = 0
    /\ micro = 0
    /\ accum = 0
    /\ rebuilt = FALSE
    /\ val_i = 0
    /\ val_loss_recon = NaN
    /\ nSubbed = 0
    /\ nBase = 0
    /\ logged_base_transcripts = FALSE
    /\ nValidate = 0
    /\ stepCkpt = Absent
    /\ bestCkpt = Absent
    /\ bestModel = Absent
    /\ pc = "absent"

(* Python sequences: s[idx] with negative indices counting from the end, and *)
(* the slice s[:m]                                                           *)

PyIndexOk(s, idx) == 0 - Len(s) <= idx /\ idx < Len(s)

PyIndex(s, idx) == IF idx >= 0 THEN s[idx + 1] ELSE s[Len(s) + idx + 1]

PySlice(s, m) ==
    IF m >= 0
    THEN SubSeq(s, 1, IF m < Len(s) THEN m ELSE Len(s))
    ELSE SubSeq(s, 1, IF Len(s) + m > 0 THEN Len(s) + m ELSE 0)

\* Python's None, and a value that is present
None == [given |-> FALSE, v |-> 0]
Some(x) == [given |-> TRUE, v |-> x]

----------------------------------------------------------------------------
(* MemoryMappedActivationsDataset (src/dataset/activations.py)               *)

MaxRows == 3         \* largest number of entries of a store on disk

Shapes == {<<1, 2>>, <<2, 1>>}       \* recorded shapes of a two-element row
Filename(i) == 100 + i               \* name of the i-th file collected
Row(i) == <<10 * i + 1, 10 * i + 2>> \* flattened tensor of the i-th file

\* <layer>_metadata.json and <layer>_tensors.npy as the collection step wrote them
DiskStores ==
    UNION {{[filenames |-> [i \in 1..n |-> Filename(i - 1)],
             tensor_shapes |-> sh,
             rows |-> [i \in 1..n |-> Row(i - 1)]] : sh \in [1..n -> Shapes]} :
           n \in 0..MaxRows}

MaxSizes == {None} \cup {Some(m) : m \in (0 - 1)..(MaxRows + 1)}

RECURSIVE Prod(_)
Prod(sh) == IF sh = <<>> THEN 1 ELSE Head(sh) * Prod(Tail(sh))

\* __init__: metadata and memory map cut to the first max_size entries
StoreTruncate(d, ms) ==
    IF ms.given
    THEN [filenames |-> PySlice(d.filenames, ms.v),
          tensor_shapes |-> PySlice(d.tensor_shapes, ms.v),
          rows |-> PySlice(d.rows, ms.v)]
    ELSE d

NoResult == [ok |-> FALSE, tensor |-> <<>>, filename |-> 0]

NewStore(d, ms) ==
    [pc |-> "new", disk |-> d, max_size |-> ms, metadata |-> d, mmap |-> <<>>,
     activation_shape |-> <<>>, idx |-> 0, res |-> NoResult]

\* __init__: _get_activation_shape reads tensor_shapes[0] and raises IndexError
\* on an empty list
StoreInit ==
    /\ store.pc = "new"
    /\ LET t == StoreTruncate(store.disk, store.max_size) IN
       IF PyIndexOk(t.tensor_shapes, 0)
       THEN store' = [store EXCEPT
                        !.pc = "ready",
                        !.metadata = [filenames |-> t.filenames,
                                      tensor_shapes |-> t.tensor_shapes,
                                      rows |-> <<>>],
                        !.mmap = t.rows,
                        !.activation_shape = PyIndex(t.tensor_shapes, 0)]
       ELSE store' = [store EXCEPT !.pc = "failed"]
    /\ UNCHANGED <<trainVars, fly, lookup, gui>>

\* __len__
StoreLen(st) == Len(st.metadata.filenames)

\* __getitem__: every subscript and the reshape may raise
GetItem(st, idx) ==
    IF /\ PyIndexOk(st.metadata.filenames, idx)
       /\ PyIndexOk(st.metadata.tensor_shapes, idx)
       /\ PyIndexOk(st.mmap, idx)
       /\ Prod(PyIndex(st.metadata.tensor_shapes, idx)) = Len(PyIndex(st.mmap, idx))
    THEN [ok |-> TRUE,
          tensor |-> [shape |-> PyIndex(st.metadata.tensor_shapes, idx),
                      data |-> PyIndex(st.mmap, idx)],
          filename |-> PyIndex(st.metadata.filenames, idx)]
    ELSE NoResult

StoreGetItem ==
    /\ store.pc \in {"ready", "read"}
    /\ \E idx \in (0 - MaxRows - 1)..(MaxRows + 1) :
         store' = [store EXCEPT !.pc = "read", !.idx = idx, !.res = GetItem(store, idx)]
    /\ UNCHANGED <<trainVars, fly, lookup, gui>>

InitStore ==
    /\ TrainAbsent
    /\ store \in {NewStore(d, ms) : d \in DiskStores, ms \in MaxSizes}
    /\ fly = Absent
    /\ lookup = Absent
    /\ gui = Absent

NextStore ==
    \/ StoreInit
    \/ StoreGetItem

StoreSpec == InitStore /\ [][NextStore]_vars

----------------------------------------------------------------------------
(* FlyActivationDataloader (src/dataset/activations.py)                      *)

MaxExamples == 4     \* largest number of audio files in the data folder

ModelNames == {1, 2}                 \* speech-model identifiers
LayerNames == {1, 2}                 \* names of layers of the speech model
FlyBatchSizes == {1, 2}

\* sae_checkpoint: none, or a checkpoint whose hyperparameters record the layer
\* and the speech model the autoencoder was trained on
NoSae == [given |-> FALSE, hp |-> [layer_name |-> 0, whisper_model |-> 0]]
SaeCheckpoints ==
    {NoSae} \cup {[given |-> TRUE, hp |-> [layer_name |-> l, whisper_model |-> w]] :
                  l \in LayerNames, w \in ModelNames}

\* subset_size: absent, 0 (falsy, the whole folder) or a prefix of the folder
SubsetSizes(n) == {None} \cup {Some(k) : k \in 0..n}

\* if subset_size: Subset(dataset, range(subset_size))
DatasetLen(n, ss) == IF ss.given /\ ss.v # 0 THEN ss.v ELSE n

\* DataLoader without shuffling, batches of example indices
RECURSIVE Chunks(_, _, _, _)
Chunks(from, n, b, drop_last) ==
    IF from + b <= n
    THEN <<[i \in 1..b |-> from + i - 1]>> \o Chunks(from + b, n, b, drop_last)
    ELSE IF from < n /\ ~drop_last
         THEN <<[i \in 1..(n - from) |-> from + i - 1]>>
         ELSE <<>>

\* Fault: drop_last False
BatchesKeepLast(n, b) == Chunks(0, n, b, FALSE)

\* dl_kwargs: drop_last True
Batches(n, b) == Chunks(0, n, b, TRUE)

\* What the hook on layer_to_cache captures in a forward over the examples ids
Capture(layer, ids) == [layer |-> layer, mels |-> ids]

\* whisper_cache.reset_state(): the captured activations are dropped
CacheReset(c) == <<>>

\* whisper_cache.forward(mels): the hook appends what it captured
CacheForward(c, layer, ids) == Append(c, Capture(layer, ids))

\* the forward passes made so far: which one, and whether autograd was recording
Forward(kind, grad) == [kind |-> kind, grad |-> grad]

NoOut == [kind |-> "none", sae |-> FALSE, acts |-> <<>>, names |-> <<>>]
StopIteration == [kind |-> "stop", sae |-> FALSE, acts |-> <<>>, names |-> <<>>]

NewFly(n, b, ss, w, l, sae) ==
    [pc |-> "new", n |-> n, batch_size |-> b, subset_size |-> ss,
     whisper_model |-> w, layer_to_cache |-> l, sae_checkpoint |-> sae,
     dataset |-> 0, dataloader |-> <<>>, cache |-> <<>>, fwds |-> {},
     activation_shape |-> "none", err |-> "none",
     pass |-> 0, pos |-> 0, ended |-> FALSE, out |-> NoOut]

\* Fault: only the layer name is compared
FlyAssertsLayerOnly(f) ==
    ~f.sae_checkpoint.given \/ f.layer_to_cache = f.sae_checkpoint.hp.layer_name

\* lines 33-36: the two assertions on the autoencoder's hyperparameters
FlyAsserts(f) ==
    /\ ~f.sae_checkpoint.given \/ f.layer_to_cache = f.sae_checkpoint.hp.layer_name
    /\ ~f.sae_checkpoint.given \/ f.sae_checkpoint.hp.whisper_model = f.whisper_model

\* __init__: builds the DataLoader, probes the shape with example 0 under
\* torch.no_grad(), then checks the autoencoder's hyperparameters
FlyInit ==
    /\ fly.pc = "new"
    /\ LET len == DatasetLen(fly.n, fly.subset_size)
           built == [fly EXCEPT !.dataset = len,
                                !.dataloader = Batches(len, fly.batch_size)]
           probed == [built EXCEPT
                        !.cache = CacheForward(fly.cache, fly.layer_to_cache, <<0>>),
                        !.fwds = fly.fwds \cup {Forward("probe", FALSE)},
                        !.activation_shape =
                            IF fly.sae_checkpoint.given THEN "code" ELSE "activation"]
       IN IF len = 0
          THEN fly' = [built EXCEPT !.pc = "failed", !.err = "index"]
          ELSE IF FlyAsserts(fly)
               THEN fly' = [probed EXCEPT !.pc = "ready"]
               ELSE fly' = [probed EXCEPT !.pc = "failed", !.err = "mismatch"]
    /\ UNCHANGED <<trainVars, store, lookup, gui>>

\* __len__
FlyLen(f) == Len(f.dataloader)

MaxPasses == 2       \* iterators made over one loader

\* iter(loader): a new generator; its body runs at the first next()
FlyIter ==
    /\ fly.pc \in {"ready", "iter"}
    /\ fly.pass < MaxPasses
    /\ fly' = [fly EXCEPT !.pc = "iter", !.pass = fly.pass + 1, !.pos = 0,
                          !.ended = FALSE, !.out = NoOut]
    /\ UNCHANGED <<trainVars, store, lookup, gui>>

\* Fault: the captured state is not reset before the forward
FlyNextNoReset(grad) ==
    /\ fly.pc = "iter"
    /\ IF fly.pos < Len(fly.dataloader)
       THEN LET ids == fly.dataloader[fly.pos + 1]
                c == CacheForward(fly.cache, fly.layer_to_cache, ids)
            IN fly' = [fly EXCEPT
                         !.cache = c,
                         !.fwds = fly.fwds \cup {Forward("batch", grad)},
                         !.pos = fly.pos + 1,
                         !.out = [kind |-> "batch", sae |-> fly.sae_checkpoint.given,
                                  acts |-> c,
                                  names |-> [i \in DOMAIN ids |-> Filename(ids[i])]]]
       ELSE fly' = [fly EXCEPT !.ended = TRUE, !.out = StopIteration]
    /\ UNCHANGED <<trainVars, store, lookup, gui>>

\* next() on the generator of __iter__: one pass of the loop body up to the
\* yield, in the caller's autograd mode (grad), or StopIteration
FlyNext(grad) ==
    /\ fly.pc = "iter"
    /\ IF fly.pos < Len(fly.dataloader)
       THEN LET ids == fly.dataloader[fly.pos + 1]
                c == CacheForward(CacheReset(fly.cache), fly.layer_to_cache, ids)
            IN fly' = [fly EXCEPT
                         !.cache = c,
                         !.fwds = fly.fwds \cup {Forward("batch", grad)},
                         !.pos = fly.pos + 1,
                         !.out = [kind |-> "batch", sae |-> fly.sae_checkpoint.given,
                                  acts |-> c,
                                  names |-> [i \in DOMAIN ids |-> Filename(ids[i])]]]
       ELSE fly' = [fly EXCEPT !.ended = TRUE, !.out = StopIteration]
    /\ UNCHANGED <<trainVars, store, lookup, gui>>

InitFly ==
    /\ TrainAbsent
    /\ store = Absent
    /\ \E n \in 0..MaxExamples :
         fly \in {NewFly(n, b, ss, w, l, sae) :
                    b \in FlyBatchSizes, ss \in SubsetSizes(n), w \in ModelNames,
                    l \in LayerNames, sae \in SaeCheckpoints}
    /\ lookup = Absent
    /\ gui = Absent

NextFly ==
    \/ FlyInit
    \/ FlyIter
    \/ \E grad \in BOOLEAN : FlyNext(grad)

FlySpec == InitFly /\ [][NextFly]_vars

----------------------------------------------------------------------------
(* top_activations (src/utils/activations.py), the lookup behind the GUI      *)

MaxSourceLen == 3    \* longest source of examples, the documented one apart

\* feature-0 values of the ten examples of the documented source
ExampleValues == <<3, 0 - 7, 1, 5, 0 - 2, 0, 9, 0 - 9, 4, 0 - 4>>

SmallValues == {0 - 2, 0 - 1, 1, 2}

\* per example, in the order the source yields them, the value of the feature
Sources ==
    {ExampleValues} \cup UNION {[1..n -> SmallValues] : n \in 0..MaxSourceLen}

NFiles == {0, 1, 3}
MinVals == {None, Some(2)}
MaxVals == {None, Some(1), Some(8)}

Abs(x) == IF x < 0 THEN 0 - x ELSE x

\* the measure examples are ranked and filtered by
Magnitude(v, absolute_magnitude) == IF absolute_magnitude THEN Abs(v) ELSE v

\* Fault: the lower bound is ignored
EligibleNoMin(mag, min_val, max_val) == max_val.given => mag <= max_val.v

\* an absent bound leaves its side open
Eligible(mag, min_val, max_val) ==
    /\ min_val.given => mag >= min_val.v
    /\ max_val.given => mag <= max_val.v

\* Fault: a new example goes before the retained ones of equal magnitude
RECURSIVE InsertBeforeTies(_, _)
InsertBeforeTies(top, it) ==
    IF top = <<>>
    THEN <<it>>
    ELSE IF Head(top).mag > it.mag
         THEN <<Head(top)>> \o InsertBeforeTies(Tail(top), it)
         ELSE <<it>> \o top

\* a new example goes after the retained ones of greater or equal magnitude
RECURSIVE InsertStable(_, _)
InsertStable(top, it) ==
    IF top = <<>>
    THEN <<it>>
    ELSE IF Head(top).mag >= it.mag
         THEN <<Head(top)>> \o InsertStable(Tail(top), it)
         ELSE <<it>> \o top

\* the n_files highest-magnitude examples seen so far
Retain(top, it, n_files) ==
    LET t == InsertStable(top, it)
    IN SubSeq(t, 1, IF n_files < Len(t) THEN n_files ELSE Len(t))

\* one pass over the source from example k on; acc holds the working set, the
\* examples that passed the filter and every example's magnitude
RECURSIVE Scan(_, _, _, _, _, _, _)
Scan(values, k, n_files, max_val, min_val, absolute_magnitude, acc) ==
    IF k > Len(values)
    THEN acc
    ELSE LET mag == Magnitude(values[k], absolute_magnitude)
             it == [id |-> Filename(k - 1), value |-> values[k], mag |-> mag]
             ok == Eligible(mag, min_val, max_val)
         IN Scan(values, k + 1, n_files, max_val, min_val, absolute_magnitude,
                 [top |-> IF ok THEN Retain(acc.top, it, n_files) ELSE acc.top,
                  eligible |-> IF ok THEN acc.eligible \cup {it.id} ELSE acc.eligible,
                  max_per_file |-> Append(acc.max_per_file, mag)])

top_activations(values, n_files, max_val, min_val, absolute_magnitude, return_max_per_file) ==
    LET r == Scan(values, 1, n_files, max_val, min_val, absolute_magnitude,
                  [top |-> <<>>, eligible |-> {}, max_per_file |-> <<>>])
    IN [top |-> [i \in DOMAIN r.top |-> <<r.top[i].id, r.top[i].value>>],
        eligible |-> r.eligible,
        max_per_file |-> IF return_max_per_file
                         THEN [given |-> TRUE, v |-> r.max_per_file]
                         ELSE [given |-> FALSE, v |-> <<>>]]

NoLookupResult ==
    [top |-> <<>>, eligible |-> {}, max_per_file |-> [given |-> FALSE, v |-> <<>>]]

NewLookup(values, n, mx, mn, a, r) ==
    [pc |-> "call", values |-> values, n_files |-> n, max_val |-> mx, min_val |-> mn,
     absolute_magnitude |-> a, return_max_per_file |-> r, res |-> NoLookupResult]

TopActivationsCall ==
    /\ lookup.pc = "call"
    /\ lookup' = [lookup EXCEPT
                    !.pc = "done",
                    !.res = top_activations(lookup.values, lookup.n_files, lookup.max_val,
                                            lookup.min_val, lookup.absolute_magnitude,
                                            lookup.return_max_per_file)]
    /\ UNCHANGED <<trainVars, store, fly, gui>>

InitLookup ==
    /\ TrainAbsent
    /\ store = Absent
    /\ fly = Absent
    /\ lookup \in {NewLookup(values, n, mx, mn, a, r) :
                     values \in Sources, n \in NFiles, mx \in MaxVals, mn \in MinVals,
                     a \in BOOLEAN, r \in BOOLEAN}
    /\ gui = Absent

NextLookup == TopActivationsCall

LookupSpec == InitLookup /\ [][NextLookup]_vars

----------------------------------------------------------------------------
(* GET /top_files (src/scripts/gui_server.py)                                *)

\* a query parameter: absent, or the string the URL carries
NoParam == [given |-> FALSE, s |-> ""]
Param(str) == [given |-> TRUE, s |-> str]

\* Python values of the two types request.args.get(name, False) can return
PyBool(b) == [t |-> "bool", b |-> b, s |-> ""]
PyStr(str) == [t |-> "str", b |-> FALSE, s |-> str]

\* bool(x): only the empty string is a false string
Truthy(x) == IF x.t = "bool" THEN x.b ELSE x.s # ""

\* int(str) and float(str) on the strings used here; None stands for ValueError
ParseNumber(str) ==
    CASE str = "0" -> Some(0)
      [] str = "1" -> Some(1)
      [] str = "2" -> Some(2)
      [] str = "3" -> Some(3)
      [] str = "8" -> Some(8)
      [] OTHER -> None

Requests ==
    [neuron_idx : {NoParam, Param("0"), Param("1")},
     n_files : {NoParam, Param("1"), Param("3"), Param("many")},
     max_val : {NoParam, Param("8")},
     min_val : {NoParam, Param("2")},
     absolute_magnitude : {NoParam, Param("true"), Param("false")},
     return_max_per_file : {NoParam, Param("true"), Param("false")}]

\* the feature values of the files the server's loader yields
GuiSource(neuron_idx) == IF neuron_idx = 0 THEN ExampleValues ELSE <<1, 0 - 2, 2>>

NoArgs ==
    [neuron_idx |-> 0, n_files |-> 0, max_val |-> None, min_val |-> None,
     absolute_magnitude |-> PyBool(FALSE), return_max_per_file |-> FALSE]

NoResponse == [top_files |-> <<>>, activations |-> <<>>, max_per_file |-> <<>>]

NewGui(req) ==
    [pc |-> "request", req |-> req, handed |-> NoArgs, top |-> <<>>, resp |-> NoResponse]

\* the module-level top_fn: the lambda of get_gui_data over the server's loader
top_fn(a) ==
    top_activations(GuiSource(a.neuron_idx), a.n_files, a.max_val, a.min_val,
                    Truthy(a.absolute_magnitude), a.return_max_per_file)

\* get_top_files, with get_top_activations inlined
GetTopFiles ==
    /\ gui.pc = "request"
    /\ LET req == gui.req
           neuron_idx == IF req.neuron_idx.given THEN ParseNumber(req.neuron_idx.s) ELSE Some(0)
           n_files == IF req.n_files.given THEN ParseNumber(req.n_files.s) ELSE Some(10)
           absolute_magnitude ==
               IF req.absolute_magnitude.given
               THEN PyStr(req.absolute_magnitude.s)
               ELSE PyBool(FALSE)
           max_val == IF req.max_val.given THEN ParseNumber(req.max_val.s) ELSE None
           min_val == IF req.min_val.given THEN ParseNumber(req.min_val.s) ELSE None
           return_max_per_file == TRUE
           a == [neuron_idx |-> neuron_idx.v, n_files |-> n_files.v, max_val |-> max_val,
                 min_val |-> min_val, absolute_magnitude |-> absolute_magnitude,
                 return_max_per_file |-> return_max_per_file]
           r == top_fn(a)
       IN IF \/ ~neuron_idx.given
             \/ ~n_files.given
             \/ (req.max_val.given /\ ~max_val.given)
             \/ (req.min_val.given /\ ~min_val.given)
          THEN gui' = [gui EXCEPT !.pc = "error"]
          ELSE gui' = [gui EXCEPT
                         !.pc = "done",
                         !.handed = a,
                         !.top = r.top,
                         !.resp = [top_files |-> [i \in DOMAIN r.top |-> r.top[i][1]],
                                   activations |-> [i \in DOMAIN r.top |-> r.top[i][2]],
                                   max_per_file |-> r.max_per_file.v]]
    /\ UNCHANGED <<trainVars, store, fly, lookup>>

InitGui ==
    /\ TrainAbsent
    /\ store = Absent
    /\ fly = Absent
    /\ lookup = Absent
    /\ gui \in {NewGui(req) : req \in Requests}

NextGui == GetTopFiles

GuiSpec == InitGui /\ [][NextGui]_vars

----------------------------------------------------------------------------
(* Properties *)

step == state["step"].v
best_val_loss == state["best_val_loss"].v

\* the step a successfully loaded checkpoint restored
RestoredStep == IF checkpoint THEN cfg.file["step"] ELSE 0

\* C1: with a positive `steps`, once the step counter has reached `steps` inside
\* the training loop, the loop stops: no further epoch is started.
C1_StopsAtBudget ==
    [][(steps # 0 - 1 /\ epoch >= 1 /\ step >= steps) => epoch' = epoch]_vars

\* C2: every optimizer step is preceded by exactly grad_acc_steps forward/backward
\* micro-batches, also when the iterator ran out in the middle of an accumulation
\* and was rebuilt (the fetch being retried once).
C2_FullAccumulation ==
    /\ pc = "optimize" => accum = grad_acc_steps
    /\ pc = "forward" => accum = micro /\ micro < grad_acc_steps /\ it_pos >= 1

\* C2 witness: the last micro-batch of a two-batch accumulation came from a
\* rebuilt iterator, and the optimizer step is about to be taken.
C2_Witness ==
    pc = "optimize" /\ rebuilt /\ grad_acc_steps = 2 /\ accum = 2

\* C3: a train source that holds fewer examples than one batch makes train() end
\* with the exhaustion error of the retried fetch: the run never gets past the
\* first fetch, and in particular never completes an epoch without a step.
C3_ExhaustionIsFatal ==
    (LoaderLen(dset_len, batch_size) = 0 /\ epoch >= 1)
        => pc \in {"for", "fetch", "failed"}

\* C4: after an optimisation step that brought the step counter to a multiple N
\* of save_every, and until the next optimisation step, the checkpoint keyed N
\* exists and records step N.
C4_PeriodicCheckpoint ==
    (epoch >= 1 /\ pc # "save" /\ step > RestoredStep /\ step % save_every = 0)
        => (stepCkpt[step] # NoFile /\ stepCkpt[step]["step"] = step)

\* C4 witness: a validation runs at a step that is due for a checkpoint and was
\* not closed by an end-of-epoch save.
C4_Witness ==
    /\ pc = "val_loop"
    /\ save_every = 2
    /\ step = 2
    /\ step > RestoredStep
    /\ stepCkpt[2] # NoFile

\* C5: a validation pass saves a "best" exactly when its reconstruction loss is
\* strictly lower than best_val_loss: then best_val_loss becomes the loss and the
\* bestval checkpoint and the bare model are written; otherwise neither is
\* written and best_val_loss keeps its value.
C5_BestSave ==
    [][pc = "val_done" =>
         IF val_loss_recon # NaN /\ val_loss_recon < best_val_loss
         THEN /\ state'["best_val_loss"].v = val_loss_recon
              /\ bestCkpt' # bestCkpt
              /\ bestCkpt' = [k \in Keys |-> state'[k].v]
              /\ bestModel' = state["model"].v
         ELSE /\ state' = state
              /\ bestCkpt' = bestCkpt
              /\ bestModel' = bestModel]_vars

\* C5 witness: a validation returned a loss equal to the recorded best, after an
\* earlier validation of this run had saved a best.
C5_Witness ==
    /\ pc = "val_done"
    /\ val_loss_recon = best_val_loss
    /\ bestCkpt # NoFile
    /\ bestCkpt["best_val_loss"] = best_val_loss

\* C6: when an epoch has ended, by running all its steps or by the step budget
\* cutting it short, the checkpoint keyed by the current step holds TrainState.
C6_EpochEndCheckpoint ==
    (pc = "epoch" /\ epoch >= 1) => stepCkpt[step] = [k \in Keys |-> state[k].v]

\* C6 witness: an epoch that was cut short by the step budget has ended.
C6_Witness ==
    /\ pc = "epoch"
    /\ epoch >= 1
    /\ steps # 0 - 1
    /\ step >= steps
    /\ inner + 1 < total_steps_per_epoch
    /\ step % save_every # 0

\* C7: outside validate() the model is in training mode, also after a failure
\* inside the validation pass.
C7_TrainModeRestored == pc # "val_loop" => training

\* C8: when load_checkpoint fails, no entry of TrainState has been restored.
C8_NoPartialRestore ==
    (pc = "failed" /\ epoch = 0) => state = FreshState(hparam_dict)

\* C9: after a resume without error, the hyperparameters held in TrainState are
\* those the model of this run was constructed with.
C9_HparamsMatch ==
    (checkpoint /\ epoch >= 1) => state["hparams"].v = hparam_dict

\* C10: a checkpoint saved from a TrainState and loaded into a freshly built
\* state restores every entry: the load succeeds, the components stay components
\* and hold the sub-state saved for their key, the plain values equal the saved
\* ones, and the saved bundle holds the value of every key of the saved state.
C10_RoundTrip ==
    /\ pc # "failed"
    /\ (pc = "epoch" /\ ~checkpoint) =>
           /\ DOMAIN stepCkpt[step] = Keys
           /\ \A k \in Keys : stepCkpt[step][k] = state[k].v
    /\ (pc = "epoch" /\ checkpoint) =>
           /\ cfg.file = stepCkpt[step]
           /\ \A k \in Keys :
                /\ state[k].v = cfg.file[k]
                /\ state[k].comp = (k \in {"model", "optimizer", "scheduler"})

\* C10 witness: a state saved after some steps, with a best loss on record and
\* hyperparameters other than this run's, has been loaded back.
C10_Witness ==
    /\ pc = "epoch"
    /\ checkpoint
    /\ step = 2
    /\ best_val_loss = 1
    /\ state["model"].v.w = 2
    /\ state["hparams"].v # hparam_dict

\* C11: a read of the store at an index outside [0, len), negative indices
\* included, fails and returns no pair; a read at an index inside [0, len)
\* returns that row under its recorded shape, with the filename of that index.
C11_OutOfRangeFails ==
    store.pc = "read" =>
        IF 0 <= store.idx /\ store.idx < StoreLen(store)
        THEN /\ store.res.ok
             /\ store.res.tensor.data = store.mmap[store.idx + 1]
             /\ store.res.tensor.shape = store.metadata.tensor_shapes[store.idx + 1]
             /\ store.res.filename = store.metadata.filenames[store.idx + 1]
        ELSE ~store.res.ok

\* C12: a loader constructed with an autoencoder checkpoint is obtained only if
\* the checkpoint's layer name and speech-model identifier equal the requested
\* ones; on a mismatch the construction fails and nothing is ever iterated;
\* without an autoencoder the construction never fails on a mismatch.
C12_MismatchRefused ==
    fly.pc # "new" =>
        LET sae == fly.sae_checkpoint
            same == /\ sae.hp.layer_name = fly.layer_to_cache
                    /\ sae.hp.whisper_model = fly.whisper_model
        IN /\ (sae.given /\ fly.pc # "failed") => same
           /\ (sae.given /\ ~same) => (fly.pc = "failed" /\ fly.pass = 0)
           /\ ~sae.given => fly.err # "mismatch"

\* C12 witness: a construction was refused for an autoencoder trained on the
\* requested layer of another speech model.
C12_Witness ==
    /\ fly.pc = "failed"
    /\ fly.err = "mismatch"
    /\ fly.sae_checkpoint.given
    /\ fly.sae_checkpoint.hp.layer_name = fly.layer_to_cache
    /\ fly.sae_checkpoint.hp.whisper_model # fly.whisper_model

\* C13: every forward pass the loader has made, the shape probe and the ones of
\* the batches, ran with gradient tracking disabled.
C13_NoGradForwards == \A f \in fly.fwds : ~f.grad

\* C14: len() is floor(n / b); a request to an iterator that has yielded fewer
\* than floor(n / b) batches yields the next b examples with their b
\* identifiers, any later request signals the end of the iteration; a new
\* iterator starts again at the first batch.
C14_FullBatches ==
    [][LET nb == fly.dataset \div fly.batch_size
           b == fly.batch_size
       IN /\ (fly.pc = "iter" /\ fly'.pc = "iter" /\ fly'.pass = fly.pass) =>
                 /\ FlyLen(fly') = nb
                 /\ IF fly.pos < nb
                    THEN /\ fly'.out.kind = "batch"
                         /\ fly'.pos = fly.pos + 1
                         /\ fly'.out.names = [i \in 1..b |-> Filename(fly.pos * b + i - 1)]
                         /\ \A j \in DOMAIN fly'.out.acts : Len(fly'.out.acts[j].mels) = b
                         /\ ~fly'.ended
                    ELSE /\ fly'.out = StopIteration
                         /\ fly'.pos = nb
                         /\ fly'.ended
          /\ (fly.pc \in {"ready", "iter"} /\ fly'.pass # fly.pass) =>
                 /\ fly'.pc = "iter"
                 /\ fly'.pos = 0
                 /\ ~fly'.ended]_vars

\* C14 witness: the second iterator over three examples in batches of two has
\* yielded its only batch after the first iterator had ended.
C14_Witness ==
    /\ fly.pc = "iter"
    /\ fly.dataset = 3
    /\ fly.batch_size = 2
    /\ fly.pass = 2
    /\ fly.pos = 1
    /\ fly.out.kind = "batch"

\* C15: once the store has been constructed over n entries with max_size = m,
\* m >= 0 or absent, it exists, its filenames, shapes and rows have the same
\* length min(m, n) (n without max_size), and they are the first entries of the
\* files, in the order of the files.
C15_TruncatedStore ==
    (/\ store.pc \in {"ready", "read", "failed"}
     /\ (store.max_size.given => store.max_size.v >= 0)) =>
        LET n == Len(store.disk.filenames)
            m == store.max_size.v
            k == IF store.max_size.given /\ m < n THEN m ELSE n
        IN /\ store.pc # "failed"
           /\ store.metadata.filenames = SubSeq(store.disk.filenames, 1, k)
           /\ store.metadata.tensor_shapes = SubSeq(store.disk.tensor_shapes, 1, k)
           /\ store.mmap = SubSeq(store.disk.rows, 1, k)

\* C16: in one train() call the first validate() returns a baseline transcript
\* for each of the first N_TRANSCRIPTS validation examples, and every later
\* validate() returns no baseline transcript, however many there are.
C16_BaselineOnce ==
    pc = "val_done" =>
        nBase = IF nValidate = 1
                THEN (IF val_len < N_TRANSCRIPTS THEN val_len ELSE N_TRANSCRIPTS)
                ELSE 0

\* C16 witness: a third validation pass has transcribed its substituted
\* examples and returned.
C16_Witness ==
    /\ pc = "val_done"
    /\ nValidate = 3
    /\ nSubbed = N_TRANSCRIPTS
    /\ nBase = 0

C19_OptionsHandedOver ==
    gui.pc = "done" =>
        /\ Truthy(gui.handed.absolute_magnitude) <=>
               (gui.req.absolute_magnitude.given /\ gui.req.absolute_magnitude.s = "true")
        /\ gui.req.return_max_per_file.given =>
               (gui.handed.return_max_per_file <=> gui.req.return_max_per_file.s = "true")
        /\ gui.handed.max_val.given <=> gui.req.max_val.given
        /\ gui.handed.min_val.given <=> gui.req.min_val.given
        /\ Len(gui.resp.top_files) = Len(gui.top)
        /\ Len(gui.resp.activations) = Len(gui.top)
        /\ \A i \in DOMAIN gui.top :
             <<gui.resp.top_files[i], gui.resp.activations[i]>> = gui.top[i]

\* C20: the activations yielded for a batch are one capture, the one of the
\* forward pass over that batch: no capture of an earlier batch or of the shape
\* probe is among them.
C20_FreshCapture ==
    (fly.pc = "iter" /\ fly.out.kind = "batch") =>
        LET b == fly.batch_size
            ids == [i \in 1..b |-> (fly.pos - 1) * b + i - 1]
        IN /\ fly.out.acts = <<Capture(fly.layer_to_cache, ids)>>
           /\ fly.cache = fly.out.acts

\* C20 witness: the second batch of a pass has been yielded.
C20_Witness ==
    /\ fly.pc = "iter"
    /\ fly.out.kind = "batch"
    /\ fly.pos = 2
    /\ fly.batch_size = 2

\* C21: an optimisation step is followed by the periodic checkpoint, then by a
\* validation exactly when the new step counter is a multiple of val_every, then
\* by the next step; validation starts nowhere else, and when it starts at a step
\* that is due for a checkpoint, that checkpoint holds the current TrainState.
C21_ValidationSchedule ==
    [][/\ pc = "optimize" => pc' = "save"
       /\ pc = "save" =>
            /\ pc' = "val_check"
            /\ step % save_every = 0 =>
                   stepCkpt'[step] = [k \in Keys |-> state[k].v]
       /\ pc = "val_check" =>
            pc' = IF step % val_every = 0 THEN "validate" ELSE "break_check"
       /\ pc' = "validate" =>
            /\ pc = "val_check"
            /\ step' = step
            /\ step % save_every = 0 =>
                   stepCkpt[step] = [k \in Keys |-> state[k].v]
       /\ pc = "val_done" => pc' = "break_check"
       /\ pc = "break_check" => (pc' \in {"for", "epoch_end"} /\ step' = step)
       /\ step' # step => (pc = "optimize" \/ pc = "resume")]_vars

\* C21 witness: the second validation of a run starts at a step that is also due
\* for a checkpoint, which is on disk.
C21_Witness ==
    /\ pc = "validate"
    /\ nValidate = 1
    /\ val_every = 1
    /\ save_every = 2
    /\ step = 2
    /\ stepCkpt[2] # NoFile
    /\ stepCkpt[2]["step"] = 2

\* C22: with `steps` other than -1, the step counter of every state of the
\* loop, and the step recorded in every checkpoint written, is at most the
\* larger of `steps` and the step restored at the start.
C22_StepBounded ==
    (steps # 0 - 1 /\ epoch >= 1) =>
        LET limit == IF steps > RestoredStep THEN steps ELSE RestoredStep
        IN /\ step <= limit
           /\ \A n \in DOMAIN stepCkpt : stepCkpt[n] # NoFile => stepCkpt[n]["step"] <= limit
           /\ bestCkpt # NoFile => bestCkpt["step"] <= limit

\* C23: once the loop has moved past a step, into the fetch of the next step or
\* past the end of the epoch, a checkpoint keyed by that step records the best
\* validation loss as it stands after the validation of that step: it does not
\* hold a best_val_loss that this validation has improved.
C23_StepCheckpointBest ==
    (pc \in {"fetch", "epoch"} /\ epoch >= 1 /\ stepCkpt[step] # NoFile) =>
        stepCkpt[step]["best_val_loss"] = best_val_loss

\* C24: best_val_loss never increases; a validation pass leaves it at the lower
\* of its value and the loss the pass returned (a NaN loss is no loss and leaves
\* it alone), nothing else changes it after the start, where it is infinity or
\* the value restored from the checkpoint; and a bestval checkpoint written by
\* the run records the current best_val_loss.
C24_BestIsMinimum ==
    [][/\ pc = "resume" =>
            /\ best_val_loss = Inf
            /\ pc' = "epoch" =>
                   state'["best_val_loss"].v =
                       IF checkpoint THEN cfg.file["best_val_loss"] ELSE Inf
       /\ pc # "resume" =>
            /\ state'["best_val_loss"].v <= best_val_loss
            /\ state'["best_val_loss"].v =
                   IF /\ pc = "val_done"
                      /\ val_loss_recon \in Losses
                      /\ val_loss_recon < best_val_loss
                   THEN val_loss_recon
                   ELSE best_val_loss
       /\ state'["best_val_loss"].v \in Losses \cup {Inf}
       /\ bestCkpt' # NoFile =>
            bestCkpt'["best_val_loss"] = state'["best_val_loss"].v]_vars

\* C24 witness: the third validation of a run has returned a loss above the
\* best on record, which the bestval checkpoint of an earlier step holds.
C24_Witness ==
    /\ pc = "val_done"
    /\ nValidate = 3
    /\ bestCkpt # NoFile
    /\ best_val_loss = 0
    /\ val_loss_recon = 1
    /\ bestCkpt["step"] < step

====
